---- MODULE Spec2Model ----
(***************************************************************************)
(* Map Display properties dialog (gui/wxpython/mapdisp/properties.py).     *)
(*                                                                         *)
(* Four check boxes are bound to four boolean properties of the shared     *)
(* MapWindowProperties store.  Every property has a signal; a binding      *)
(* (PropertyItem) subscribes its _setValue to the signal and, when the     *)
(* user toggles the check box, disconnects, writes the widget value to the *)
(* store and connects again.  The handlers run on the single UI thread, so *)
(* the model is a call stack: only the frame on top of the stack steps.    *)
(***************************************************************************)
EXTENDS Integers, Sequences, FiniteSets, TLC

\* Number of dialog instances that can be created in one run.
MaxDialogs == 1
\* Number of store writes that observers outside the dialog make from
\* inside the signal dispatch of a toggle in one run (SpecReentrant only).
MaxReentrant == 1
\* Number of exceptions raised inside the store write of a toggle in one run
\* (SpecRaise only).
MaxRaises == 1

Dialogs == 1..MaxDialogs

\* The four properties of the store, named as the attributes the bindings use.
Props == {"autoRender", "alignExtent", "resolution", "showRegion"}

\* The four bindings, by their name attribute, in the order the dialog
\* creates them.
KindOrder == <<"render", "alignExtent", "resolution", "region">>
Kinds == {KindOrder[i] : i \in 1..Len(KindOrder)}

KindIndex(k) == CHOOSE i \in 1..Len(KindOrder) : KindOrder[i] = k

VARIABLES
    store,      \* MapWindowProperties: property -> value
    subs,       \* property -> handlers connected to its signal, in order
    widget,     \* <<dialog, kind>> -> value the check box displays
    dialog,     \* dialog -> "none" | "creating" | "open" | "closed"
    stack,      \* call stack of the UI thread, top-level event first
    writes,     \* store writes made during the running event
    deliv,      \* signal deliveries made during the running event
    redraws,    \* giface.updateMap emissions made during the running event
    reentrant,  \* observer writes from inside a dispatch made so far
    wired,      \* kind -> which accessors the binding's class overrides
    raises,     \* exceptions raised by observers so far
    captured    \* dialog -> value autoRender had when the dialog was created

vars == <<store, subs, widget, dialog, stack, writes, deliv, redraws, reentrant,
          wired, raises, captured>>

(***************************************************************************)
(* Handlers.  A binding's handler is its bound method _setValue; the store *)
(* has one observer outside the dialog on every signal (the map window).   *)
(***************************************************************************)
Handler(d, k) == [obs |-> FALSE, dlg |-> d, name |-> k]
Observer(p) == [obs |-> TRUE, dlg |-> 0, name |-> p]
External == [obs |-> TRUE, dlg |-> 0, name |-> "external"]

\* An align-extent class copied from ChBRender with the accessor left as it
\* was.
mapWindowProperty_copied(k) ==
    CASE k = "render" -> "autoRender"
      [] k = "alignExtent" -> "autoRender"
      [] k = "resolution" -> "resolution"
      [] k = "region" -> "showRegion"

\* The store attribute each class reads and writes (mapWindowProperty).
mapWindowProperty(k) ==
    CASE k = "render" -> "autoRender"
      [] k = "alignExtent" -> "alignExtent"
      [] k = "resolution" -> "resolution"
      [] k = "region" -> "showRegion"

\* The signal each class returns, named by the property it belongs to.
mapWindowPropertyChanged(k) ==
    CASE k = "render" -> "autoRender"
      [] k = "alignExtent" -> "alignExtent"
      [] k = "resolution" -> "resolution"
      [] k = "region" -> "showRegion"

\* Every class requesting a redraw after its toggle.
OverridesToggle_all(k) == TRUE

\* The classes that override _onToggleCheckBox to request a redraw.
OverridesToggle(k) == k \in {"resolution", "region"}

\* Both overrides emitting render=False.
RedrawRequest_light(k) == "light"

\* Both overrides emitting with no argument.
RedrawRequest_full(k) == "full"

\* What the override emits on giface.updateMap: ChBResolution emits with no
\* argument (the full re-render), ChBShowRegion emits render=False.
RedrawRequest(k) == IF k = "resolution" THEN "full" ELSE "light"

(***************************************************************************)
(* Signal: an ordered list of handlers.                                    *)
(***************************************************************************)
Count(s, h) == Cardinality({i \in 1..Len(s) : s[i] = h})

connect(s, h) == Append(s, h)

disconnect(s, h) ==
    IF Count(s, h) = 0 THEN s
    ELSE LET i == CHOOSE j \in 1..Len(s) :
                      s[j] = h /\ \A m \in 1..(j - 1) : s[m] # h
         IN  SubSeq(s, 1, i - 1) \o SubSeq(s, i + 1, Len(s))

\* A binding that never puts its handler on the signal.
_connect_noop(sb, d, k) == sb

\* PropertyItem._connect on the class's own signal.
_connect(sb, d, k) ==
    [sb EXCEPT ![mapWindowPropertyChanged(k)] = connect(@, Handler(d, k))]

\* A toggle handler that does not take its handler off the signal.
_disconnect_noop(sb, d, k) == sb

\* PropertyItem._disconnect on the class's own signal.
_disconnect(sb, d, k) ==
    [sb EXCEPT ![mapWindowPropertyChanged(k)] = disconnect(@, Handler(d, k))]

\* wx.CheckBox.SetValue: display a value; it raises no toggle event.
SetValue(w, d, k, value) == [w EXCEPT ![<<d, k>>] = value]

\* A change handler that leaves the check box as it is.
_setValue_ignored(w, d, k, value) == w

\* A change handler that flips the check box when the value is true.
_setValue_flip(w, d, k, value) ==
    [w EXCEPT ![<<d, k>>] = IF value THEN ~@ ELSE FALSE]

\* A change handler that sets every check box of its dialog.
_setValue_all(w, d, k, value) ==
    [b \in DOMAIN w |-> IF b[1] = d THEN value ELSE w[b]]

\* PropertyItem._setValue: show the delivered value in the check box.
_setValue(w, d, k, value) == SetValue(w, d, k, value)

\* A constructor that leaves the new check box unchecked.
Seed_unchecked(w, st, d, k) == w

\* self.widget.SetValue(self.mapWindowProperty) in each __init__.
Seed(w, st, d, k) == SetValue(w, d, k, st[mapWindowProperty(k)])

(***************************************************************************)
(* Call stack frames.                                                      *)
(***************************************************************************)
Frame(op, pc, d, k, p, v, by, rcv, w) ==
    [op |-> op, pc |-> pc, d |-> d, k |-> k, p |-> p, v |-> v,
     by |-> by, rcv |-> rcv, w |-> w]

InitFrame(d, k, pc) == Frame("init", pc, d, k, "", FALSE, External, <<>>, 0)
ToggleFrame(d, k, v, pc) ==
    Frame("toggle", pc, d, k, mapWindowProperty(k), v, Handler(d, k), <<>>, 0)
ExternalFrame(p, v) == Frame("external", "ret", 0, "", p, v, External, <<>>, 0)
SetFrame(p, v, by) == Frame("set", "assign", 0, "", p, v, by, <<>>, 0)

Idle == stack = <<>>
Top == stack[Len(stack)]
Running(op, pc) == stack # <<>> /\ Top.op = op /\ Top.pc = pc
ReplaceTop(f) == [stack EXCEPT ![Len(stack)] = f]
Pop == SubSeq(stack, 1, Len(stack) - 1)

\* The four classes of the module override the property getter, the
\* property setter and the signal accessor of PropertyItem.
AllWired == [k \in Kinds |-> [get |-> TRUE, set |-> TRUE, sig |-> TRUE]]

Init ==
    /\ store \in [Props -> BOOLEAN]
    /\ subs = [p \in Props |-> <<Observer(p)>>]
    /\ widget = [b \in Dialogs \X Kinds |-> FALSE]
    /\ dialog = [d \in Dialogs |-> "none"]
    /\ stack = <<>>
    /\ writes = <<>>
    /\ deliv = <<>>
    /\ redraws = <<>>
    /\ reentrant = 0
    /\ wired = AllWired
    /\ raises = 0
    /\ captured = [d \in Dialogs |-> FALSE]

(***************************************************************************)
(* MapDisplayPropertiesDialog                                              *)
(***************************************************************************)
\* MapDisplayPropertiesDialog.__init__ starts; dialogs are created in turn.
OpenDialog(d) ==
    /\ Idle
    /\ dialog[d] = "none"
    /\ \A e \in Dialogs : e < d => dialog[e] # "none"
    /\ dialog' = [dialog EXCEPT ![d] = "creating"]
    /\ stack' = <<InitFrame(d, KindOrder[1], "construct")>>
    /\ captured' = [captured EXCEPT ![d] = store["autoRender"]]
    /\ UNCHANGED <<store, subs, widget, writes, deliv, redraws, reentrant,
                 wired, raises>>

\* One binding's __init__ in _createDisplayPage: seed the check box from the
\* store, bind the toggle handler, connect _setValue to the signal.
ConstructBinding ==
    /\ Running("init", "construct")
    /\ LET d == Top.d
           k == Top.k
           i == KindIndex(k)
       IN  /\ widget' = Seed(widget, store, d, k)
           /\ subs' = _connect(subs, d, k)
           /\ stack' = ReplaceTop(IF i < Len(KindOrder)
                                  THEN InitFrame(d, KindOrder[i + 1], "construct")
                                  ELSE InitFrame(d, k, "ret"))
    /\ UNCHANGED <<store, dialog, writes, deliv, redraws, reentrant,
                 wired, raises, captured>>

\* The dialog is closed.  The class defines no close or destroy handler and
\* no binding has a teardown method: nothing is disconnected.
CloseDialog(d) ==
    /\ Idle
    /\ dialog[d] = "open"
    /\ dialog' = [dialog EXCEPT ![d] = "closed"]
    /\ UNCHANGED <<store, subs, widget, stack, writes, deliv, redraws, reentrant,
                 wired, raises, captured>>

(***************************************************************************)
(* PropertyItem._onToggleCheckBox                                          *)
(***************************************************************************)
\* The user clicks a check box of an open dialog: the toolkit flips the
\* displayed value and calls the bound handler.
UserToggle(d, k) ==
    /\ Idle
    /\ dialog[d] = "open"
    /\ widget' = [widget EXCEPT ![<<d, k>>] = ~@]
    /\ stack' = <<ToggleFrame(d, k, ~widget[<<d, k>>], "disconnect")>>
    /\ UNCHANGED <<store, subs, dialog, writes, deliv, redraws, reentrant,
                 wired, raises, captured>>

\* An override that requests the redraw before it calls the base handler.
ToggleDisconnect_redrawFirst ==
    /\ Running("toggle", "disconnect")
    /\ subs' = _disconnect(subs, Top.d, Top.k)
    /\ redraws' = IF OverridesToggle(Top.k) /\ store["autoRender"]
                  THEN Append(redraws, RedrawRequest(Top.k))
                  ELSE redraws
    /\ stack' = ReplaceTop([Top EXCEPT !.pc = "write"])
    /\ UNCHANGED <<store, widget, dialog, writes, deliv, reentrant,
                   wired, raises, captured>>

\* self._disconnect()
ToggleDisconnect ==
    /\ Running("toggle", "disconnect")
    /\ subs' = _disconnect(subs, Top.d, Top.k)
    /\ stack' = ReplaceTop([Top EXCEPT !.pc = "write"])
    /\ UNCHANGED <<store, widget, dialog, writes, deliv, redraws, reentrant,
                 wired, raises, captured>>

\* A handler that writes the opposite of what the check box displays.
ToggleWrite_negated ==
    /\ Running("toggle", "write")
    /\ stack' = Append(ReplaceTop([Top EXCEPT !.pc = "connect"]),
                       SetFrame(mapWindowProperty(Top.k),
                                ~widget[<<Top.d, Top.k>>],
                                Handler(Top.d, Top.k)))
    /\ UNCHANGED <<store, subs, widget, dialog, writes, deliv, redraws, reentrant,
                 wired, raises, captured>>

\* self.mapWindowProperty = self.widget.GetValue()
ToggleWrite ==
    /\ Running("toggle", "write")
    /\ stack' = Append(ReplaceTop([Top EXCEPT !.pc = "connect"]),
                       SetFrame(mapWindowProperty(Top.k),
                                widget[<<Top.d, Top.k>>],
                                Handler(Top.d, Top.k)))
    /\ UNCHANGED <<store, subs, widget, dialog, writes, deliv, redraws, reentrant,
                 wired, raises, captured>>

\* self._connect(); the base handler then returns, an override goes on.
ToggleConnect ==
    /\ Running("toggle", "connect")
    /\ subs' = _connect(subs, Top.d, Top.k)
    /\ stack' = ReplaceTop([Top EXCEPT !.pc =
                    IF OverridesToggle(Top.k) THEN "redraw" ELSE "ret"])
    /\ UNCHANGED <<store, widget, dialog, writes, deliv, redraws, reentrant,
                 wired, raises, captured>>

\* An override that tests the autoRender value of the time the dialog was
\* created.
ToggleRedraw_captured ==
    /\ Running("toggle", "redraw")
    /\ redraws' = IF captured[Top.d]
                  THEN Append(redraws, RedrawRequest(Top.k))
                  ELSE redraws
    /\ stack' = ReplaceTop([Top EXCEPT !.pc = "ret"])
    /\ UNCHANGED <<store, subs, widget, dialog, writes, deliv, reentrant,
                   wired, raises, captured>>

\* ChBResolution / ChBShowRegion: if self._properties.autoRender: emit.
ToggleRedraw ==
    /\ Running("toggle", "redraw")
    /\ redraws' = IF store["autoRender"]
                  THEN Append(redraws, RedrawRequest(Top.k))
                  ELSE redraws
    /\ stack' = ReplaceTop([Top EXCEPT !.pc = "ret"])
    /\ UNCHANGED <<store, subs, widget, dialog, writes, deliv, reentrant,
                 wired, raises, captured>>

(***************************************************************************)
(* The store and its signals                                               *)
(***************************************************************************)
\* Code outside the dialog sets a property between two UI events.
ExternalSet(p, v) ==
    /\ Idle
    /\ stack' = <<ExternalFrame(p, v), SetFrame(p, v, External)>>
    /\ UNCHANGED <<store, subs, widget, dialog, writes, deliv, redraws, reentrant,
                 wired, raises, captured>>

\* The property setter: store the value, then emit the signal to the
\* handlers connected now.
SetAssign ==
    /\ Running("set", "assign")
    /\ store' = [store EXCEPT ![Top.p] = Top.v]
    /\ writes' = Append(writes, [p |-> Top.p, v |-> Top.v, by |-> Top.by])
    /\ stack' = ReplaceTop([Top EXCEPT !.pc = "emit", !.rcv = subs[Top.p],
                                       !.w = Len(writes) + 1])
    /\ UNCHANGED <<subs, widget, dialog, deliv, redraws, reentrant,
                 wired, raises, captured>>

\* The signal calls the next handler, a binding's _setValue.
DeliverToBinding ==
    /\ Running("set", "emit")
    /\ Top.rcv # <<>>
    /\ ~Head(Top.rcv).obs
    /\ LET h == Head(Top.rcv)
       IN  /\ widget' = _setValue(widget, h.dlg, h.name, Top.v)
           /\ deliv' = Append(deliv, [w |-> Top.w, h |-> h, v |-> Top.v])
    /\ stack' = ReplaceTop([Top EXCEPT !.rcv = Tail(@)])
    /\ UNCHANGED <<store, subs, dialog, writes, redraws, reentrant,
                 wired, raises, captured>>

\* The signal calls the next handler, an observer that only reads the value.
DeliverToObserver ==
    /\ Running("set", "emit")
    /\ Top.rcv # <<>>
    /\ Head(Top.rcv).obs
    /\ deliv' = Append(deliv, [w |-> Top.w, h |-> Head(Top.rcv), v |-> Top.v])
    /\ stack' = ReplaceTop([Top EXCEPT !.rcv = Tail(@)])
    /\ UNCHANGED <<store, subs, widget, dialog, writes, redraws, reentrant,
                 wired, raises, captured>>

\* The signal calls the next handler, an observer that sets a property of
\* the store while the dispatch of a toggle's write is in progress.
ObserverWrites(q, v) ==
    /\ Running("set", "emit")
    /\ stack[1].op = "toggle"
    /\ Top.rcv # <<>>
    /\ Head(Top.rcv).obs
    /\ reentrant < MaxReentrant
    /\ reentrant' = reentrant + 1
    /\ deliv' = Append(deliv, [w |-> Top.w, h |-> Head(Top.rcv), v |-> Top.v])
    /\ stack' = Append(ReplaceTop([Top EXCEPT !.rcv = Tail(@)]),
                       SetFrame(q, v, Head(Top.rcv)))
    /\ UNCHANGED <<store, subs, widget, dialog, writes, redraws,
                 wired, raises, captured>>

\* Every handler was called: the setter returns to its caller.
SetReturn ==
    /\ Running("set", "emit")
    /\ Top.rcv = <<>>
    /\ stack' = Pop
    /\ UNCHANGED <<store, subs, widget, dialog, writes, deliv, redraws, reentrant,
                 wired, raises, captured>>

\* The top-level handler returns to the event loop.
Return ==
    /\ Len(stack) = 1
    /\ Top.pc = "ret"
    /\ stack' = <<>>
    /\ dialog' = IF Top.op = "init" THEN [dialog EXCEPT ![Top.d] = "open"]
                 ELSE dialog
    /\ writes' = <<>>
    /\ deliv' = <<>>
    /\ redraws' = <<>>
    /\ UNCHANGED <<store, subs, widget, reentrant,
                 wired, raises, captured>>

Next ==
    \/ \E d \in Dialogs : OpenDialog(d)
    \/ ConstructBinding
    \/ \E d \in Dialogs : CloseDialog(d)
    \/ \E d \in Dialogs, k \in Kinds : UserToggle(d, k)
    \/ ToggleDisconnect
    \/ ToggleWrite
    \/ ToggleConnect
    \/ ToggleRedraw
    \/ \E p \in Props, v \in BOOLEAN : ExternalSet(p, v)
    \/ SetAssign
    \/ DeliverToBinding
    \/ DeliverToObserver
    \/ SetReturn
    \/ Return

Spec == Init /\ [][Next]_vars

\* The UI thread runs a handler that has started until it returns.
SpecFair == Spec /\ WF_vars(~Idle /\ Next)

NextReentrant ==
    \/ Next
    \/ \E q \in Props, v \in BOOLEAN : ObserverWrites(q, v)

SpecReentrant == Init /\ [][NextReentrant]_vars

(***************************************************************************)
(* Classes that leave an accessor of PropertyItem un-overridden            *)
(***************************************************************************)
\* The base getter returns None, the base setter does nothing and the base
\* mapWindowPropertyChanged returns None.
Wirings == [get : BOOLEAN, set : BOOLEAN, sig : BOOLEAN]

FullyWired(k) == wired[k].get /\ wired[k].set /\ wired[k].sig

\* One of the four classes may have any wiring.
InitConfig ==
    /\ store \in [Props -> BOOLEAN]
    /\ subs = [p \in Props |-> <<Observer(p)>>]
    /\ widget = [b \in Dialogs \X Kinds |-> FALSE]
    /\ dialog = [d \in Dialogs |-> "none"]
    /\ stack = <<>>
    /\ writes = <<>>
    /\ deliv = <<>>
    /\ redraws = <<>>
    /\ reentrant = 0
    /\ \E k \in Kinds, w \in Wirings : wired = [AllWired EXCEPT ![k] = w]
    /\ raises = 0
    /\ captured = [d \in Dialogs |-> FALSE]

\* __init__ raises: the toolkit rejects the None of the base getter
\* (TypeError), or _connect calls connect on the None of the base signal
\* accessor (AttributeError).  Nothing is connected.
ConstructRaises ==
    /\ Running("init", "construct")
    /\ ~wired[Top.k].get \/ ~wired[Top.k].sig
    /\ widget' = IF wired[Top.k].get THEN Seed(widget, store, Top.d, Top.k)
                 ELSE widget
    /\ stack' = ReplaceTop(InitFrame(Top.d, Top.k, "raised"))
    /\ UNCHANGED <<store, subs, dialog, writes, deliv, redraws, reentrant,
                   wired, raises, captured>>

\* __init__ with the base getter when the toolkit takes None as unchecked.
ConstructUnseeded ==
    /\ Running("init", "construct")
    /\ ~wired[Top.k].get /\ wired[Top.k].sig
    /\ LET d == Top.d
           k == Top.k
           i == KindIndex(k)
       IN  /\ widget' = SetValue(widget, d, k, FALSE)
           /\ subs' = _connect(subs, d, k)
           /\ stack' = ReplaceTop(IF i < Len(KindOrder)
                                  THEN InitFrame(d, KindOrder[i + 1], "construct")
                                  ELSE InitFrame(d, k, "ret"))
    /\ UNCHANGED <<store, dialog, writes, deliv, redraws, reentrant,
                   wired, raises, captured>>

\* self.mapWindowProperty = ... with the base setter: pass.
ToggleWriteBase ==
    /\ Running("toggle", "write")
    /\ ~wired[Top.k].set
    /\ stack' = ReplaceTop([Top EXCEPT !.pc = "connect"])
    /\ UNCHANGED <<store, subs, widget, dialog, writes, deliv, redraws,
                   reentrant, wired, raises, captured>>

\* An exception leaves the top-level handler; a dialog whose __init__
\* raised is never shown.
Abort ==
    /\ Len(stack) = 1
    /\ Top.pc = "raised"
    /\ stack' = <<>>
    /\ dialog' = IF Top.op = "init" THEN [dialog EXCEPT ![Top.d] = "failed"]
                 ELSE dialog
    /\ writes' = <<>>
    /\ deliv' = <<>>
    /\ redraws' = <<>>
    /\ UNCHANGED <<store, subs, widget, reentrant, wired, raises, captured>>

NextConfig ==
    \/ \E d \in Dialogs : OpenDialog(d)
    \/ /\ Running("init", "construct")
       /\ wired[Top.k].get /\ wired[Top.k].sig
       /\ ConstructBinding
    \/ ConstructRaises
    \/ ConstructUnseeded
    \/ \E d \in Dialogs : CloseDialog(d)
    \/ \E d \in Dialogs, k \in Kinds : UserToggle(d, k)
    \/ ToggleDisconnect
    \/ /\ Running("toggle", "write")
       /\ wired[Top.k].set
       /\ ToggleWrite
    \/ ToggleWriteBase
    \/ ToggleConnect
    \/ ToggleRedraw
    \/ \E p \in Props, v \in BOOLEAN : ExternalSet(p, v)
    \/ SetAssign
    \/ DeliverToBinding
    \/ DeliverToObserver
    \/ SetReturn
    \/ Return
    \/ Abort

SpecConfig == InitConfig /\ [][NextConfig]_vars

(***************************************************************************)
(* Exceptions raised inside the store write of a toggle                    *)
(***************************************************************************)
\* A handler that connects again in a finally clause.
onRaise_finally(sb, f) ==
    IF f.op = "toggle" THEN _connect(sb, f.d, f.k) ELSE sb

\* What the calling frame does when an exception passes through it:
\* _onToggleCheckBox has no try/finally, the frame is just left.
onRaise(sb, f) == sb

\* The signal calls the next handler, an observer that raises.
ObserverRaises ==
    /\ Running("set", "emit")
    /\ stack[1].op = "toggle"
    /\ Top.rcv # <<>>
    /\ Head(Top.rcv).obs
    /\ raises < MaxRaises
    /\ raises' = raises + 1
    /\ deliv' = Append(deliv, [w |-> Top.w, h |-> Head(Top.rcv), v |-> Top.v])
    /\ stack' = ReplaceTop([Top EXCEPT !.pc = "raised"])
    /\ UNCHANGED <<store, subs, widget, dialog, writes, redraws, reentrant,
                   wired, captured>>

\* The property setter raises before it stores the value.
SetterRaises ==
    /\ Running("set", "assign")
    /\ stack[1].op = "toggle"
    /\ raises < MaxRaises
    /\ raises' = raises + 1
    /\ stack' = ReplaceTop([Top EXCEPT !.pc = "raised"])
    /\ UNCHANGED <<store, subs, widget, dialog, writes, deliv, redraws,
                   reentrant, wired, captured>>

\* The exception leaves a frame and reaches its caller.
Propagate ==
    /\ Len(stack) >= 2
    /\ Top.pc = "raised"
    /\ subs' = onRaise(subs, stack[Len(stack) - 1])
    /\ stack' = [Pop EXCEPT ![Len(stack) - 1] = [@ EXCEPT !.pc = "raised"]]
    /\ UNCHANGED <<store, widget, dialog, writes, deliv, redraws, reentrant,
                   wired, raises, captured>>

\* The raising session follows one dialog: an exception in a toggle of one
\* dialog runs no code of another.
NextRaise ==
    \/ \E d \in Dialogs : (\A e \in Dialogs : d <= e) /\ OpenDialog(d)
    \/ ConstructBinding
    \/ \E d \in Dialogs : CloseDialog(d)
    \/ \E d \in Dialogs, k \in Kinds : UserToggle(d, k)
    \/ ToggleDisconnect
    \/ ToggleWrite
    \/ ToggleConnect
    \/ ToggleRedraw
    \/ \E p \in Props, v \in BOOLEAN : ExternalSet(p, v)
    \/ SetAssign
    \/ DeliverToBinding
    \/ DeliverToObserver
    \/ SetReturn
    \/ Return
    \/ ObserverRaises
    \/ SetterRaises
    \/ Propagate
    \/ Abort

SpecRaise == Init /\ [][NextRaise]_vars

(***************************************************************************)
(* Properties                                                              *)
(***************************************************************************)
\* The top-level handler that is running, and the binding it belongs to.
Event == stack[1]
InEvent(op) == stack # <<>> /\ Event.op = op
Returning(op) == Len(stack) = 1 /\ Event.op = op /\ Event.pc = "ret"
Binding == Handler(Event.d, Event.k)

\* The stores writes of the running event made by writer h.
WritesBy(h) == {i \in 1..Len(writes) : writes[i].by = h}

\* How often write number i was delivered to handler h.
Delivered(i, h) ==
    Cardinality({j \in 1..Len(deliv) : deliv[j].w = i /\ deliv[j].h = h})

Handlers(p) == {subs[p][i] : i \in 1..Len(subs[p])}

\* The bindings whose __init__ has returned.
Constructed(d, k) ==
    \/ dialog[d] \in {"open", "closed"}
    \/ /\ dialog[d] = "creating"
       /\ InEvent("init")
       /\ Event.pc = "ret" \/ KindIndex(k) < KindIndex(Event.k)

\* C1: during a user toggle of a binding its own _setValue is never called,
\* and once the write of the widget value has returned, that write has been
\* delivered exactly once to every other handler connected to the signal.
SelfWriteSuppression ==
    InEvent("toggle") =>
        /\ \A j \in 1..Len(deliv) : deliv[j].h # Binding
        /\ (Len(stack) = 1 /\ Event.pc \in {"connect", "redraw", "ret"}) =>
              /\ Cardinality(WritesBy(Binding)) = 1
              /\ \A i \in WritesBy(Binding) :
                    \A h \in Handlers(Event.p) \ {Binding} : Delivered(i, h) = 1

\* C1 witness: a toggle whose write has returned after it was delivered to
\* the observer of the signal, the binding being connected again.
SelfWriteSuppressionWitness ==
    /\ Returning("toggle")
    /\ Count(subs[Event.p], Binding) = 1
    /\ Delivered(1, Observer(Event.p)) = 1
    /\ Delivered(1, Binding) = 0

\* C2: when the toggle handler returns, the event has made exactly one store
\* write, of the selected value to the binding's property, and both the
\* store property and the check box hold the selected value.
NoFeedbackLoop ==
    Returning("toggle") =>
        /\ writes = <<[p |-> mapWindowProperty(Event.k), v |-> Event.v,
                       by |-> Binding]>>
        /\ store[mapWindowProperty(Event.k)] = Event.v
        /\ widget[<<Event.d, Event.k>>] = Event.v

\* C2 witness: a toggle to TRUE has returned with store and check box TRUE.
NoFeedbackLoopWitness ==
    /\ Returning("toggle")
    /\ Event.v
    /\ Len(writes) = 1
    /\ store[mapWindowProperty(Event.k)]
    /\ widget[<<Event.d, Event.k>>]

\* C3: when a write from outside the bindings returns, it is the only store
\* write of the event, and every binding connected to the property's signal
\* was called once and displays the written value.
ExternalChangePropagation ==
    Returning("external") =>
        /\ writes = <<[p |-> Event.p, v |-> Event.v, by |-> External]>>
        /\ \A h \in Handlers(Event.p) :
              ~h.obs => /\ Delivered(1, h) = 1
                        /\ widget[<<h.dlg, h.name>>] = Event.v

\* C3 witness: an external write of TRUE has returned and reached the
\* binding of an open dialog.
ExternalChangePropagationWitness ==
    /\ Returning("external")
    /\ Event.v
    /\ \E d \in Dialogs, k \in Kinds :
          /\ dialog[d] = "open"
          /\ mapWindowProperty(k) = Event.p
          /\ Delivered(1, Handler(d, k)) = 1
          /\ widget[<<d, k>>]

\* C4: when a toggle of the resolution binding returns it has requested
\* exactly one redraw, a full re-render, if autoRender is true and no
\* redraw if autoRender is false.
ConditionalRedrawResolution ==
    (Returning("toggle") /\ Event.k = "resolution") =>
        redraws = IF store["autoRender"] THEN <<"full">> ELSE <<>>

\* C4 witness: a resolution toggle returns, autoRender true, one full redraw.
ConditionalRedrawResolutionWitness ==
    /\ Returning("toggle")
    /\ Event.k = "resolution"
    /\ store["autoRender"]
    /\ redraws = <<"full">>

\* C5: a toggle of the show-region binding never requests a full re-render,
\* and when it returns it has requested exactly one redraw with render=False
\* if autoRender is true and no redraw if autoRender is false.
ConditionalRedrawRegion ==
    (InEvent("toggle") /\ Event.k = "region") =>
        /\ \A i \in 1..Len(redraws) : redraws[i] # "full"
        /\ Event.pc = "ret" =>
              redraws = IF store["autoRender"] THEN <<"light">> ELSE <<>>

\* C5 witness: a region toggle returns, autoRender true, one light redraw.
ConditionalRedrawRegionWitness ==
    /\ Returning("toggle")
    /\ Event.k = "region"
    /\ store["autoRender"]
    /\ redraws = <<"light">>

\* C6: a toggle of the render or the align-extent binding requests no
\* redraw at any point, whatever autoRender is.
NoRedrawOnRenderOrAlign ==
    (InEvent("toggle") /\ Event.k \in {"render", "alignExtent"}) =>
        redraws = <<>>

\* C6 witness: the render check box was toggled to TRUE, autoRender is TRUE
\* in the store and the handler returns without a redraw request.
NoRedrawOnRenderOrAlignWitness ==
    /\ Returning("toggle")
    /\ Event.k = "render"
    /\ Event.v
    /\ store["autoRender"]
    /\ redraws = <<>>

\* C7: while the dialog constructs its bindings no store write, signal
\* delivery or redraw request happens, and every binding constructed so far
\* displays the value of its property and is connected exactly once.
IdempotentSeeding ==
    InEvent("init") =>
        /\ writes = <<>>
        /\ deliv = <<>>
        /\ redraws = <<>>
        /\ \A k \in Kinds :
              Constructed(Event.d, k) =>
                 /\ widget[<<Event.d, k>>] = store[mapWindowProperty(k)]
                 /\ Count(subs[mapWindowPropertyChanged(k)],
                          Handler(Event.d, k)) = 1

\* C7 witness: the four bindings are constructed over a store whose
\* autoRender is TRUE and the render check box displays TRUE.
IdempotentSeedingWitness ==
    /\ Returning("init")
    /\ store["autoRender"]
    /\ widget[<<Event.d, "render">>]
    /\ Count(subs["autoRender"], Handler(Event.d, "render")) = 1

\* C8: whenever no handler is running, the check box of every binding of an
\* open dialog displays the value of its store property.
WidgetStoreConsistency ==
    Idle =>
        \A d \in Dialogs, k \in Kinds :
            dialog[d] = "open" => widget[<<d, k>>] = store[mapWindowProperty(k)]

Teardown ==
    \A d \in Dialogs, p \in Props :
        dialog[d] = "closed" => \A h \in Handlers(p) : h.dlg # d


\* C11: a binding of a class that leaves an accessor un-overridden is never
\* connected to a signal and never part of an open dialog, and no toggle
\* handler returns without a store write.
ConfigErrorsFailFast ==
    /\ \A d \in Dialogs, k \in Kinds :
          ~FullyWired(k) =>
              /\ dialog[d] # "open"
              /\ Count(subs[mapWindowPropertyChanged(k)], Handler(d, k)) = 0
    /\ Returning("toggle") => writes # <<>>

\* The two states of a binding.
Subscribed(d, k) ==
    Count(subs[mapWindowPropertyChanged(k)], Handler(d, k)) = 1
Updating(d, k) ==
    Count(subs[mapWindowPropertyChanged(k)], Handler(d, k)) = 0

\* The steps of the state machine of binding <<d, k>>.
BindingStep(d, k) ==
    /\ (~Constructed(d, k) /\ Constructed(d, k)') => Subscribed(d, k)'
    /\ Constructed(d, k) =>
          /\ (Subscribed(d, k) /\ ~Subscribed(d, k)') =>
                /\ Running("toggle", "disconnect")
                /\ Binding = Handler(d, k)
                /\ Updating(d, k)'
          /\ (Updating(d, k) /\ ~Updating(d, k)') =>
                /\ Len(stack) = 1
                /\ Running("toggle", "connect")
                /\ Binding = Handler(d, k)
                /\ WritesBy(Binding) # {}
                /\ Subscribed(d, k)'
          /\ (Len(deliv') > Len(deliv) /\ Subscribed(d, k)) => Subscribed(d, k)'

RedrawOrdering ==
    /\ [](\A d \in Dialogs, k \in Kinds :
            (Constructed(d, k) /\ Updating(d, k)) => redraws = <<>>)
    /\ [][Len(redraws') > Len(redraws) =>
            /\ Len(stack) = 1
            /\ InEvent("toggle")
            /\ Event.k \in {"resolution", "region"}
            /\ redraws = <<>>
            /\ Cardinality(WritesBy(Binding)) = 1
            /\ store[Event.p] = Event.v
            /\ \A h \in Handlers(Event.p) \ {Binding} : Delivered(1, h) = 1
            /\ Subscribed(Event.d, Event.k)]_vars

\* C13 witness: the show-region handler returns with its redraw request,
\* the write delivered to the observer and the binding connected.
RedrawOrderingWitness ==
    /\ Returning("toggle")
    /\ Event.k = "region"
    /\ redraws # <<>>
    /\ store["showRegion"] = Event.v
    /\ Delivered(1, Observer("showRegion")) = 1
    /\ Subscribed(Event.d, "region")

\* C14: the override requests a redraw exactly if autoRender is true in
\* the store when the test is made, so that the handler of a resolution or
\* show-region toggle returns with a request iff autoRender is true then.
RedrawReadsCurrentAutoRender ==
    /\ []((Returning("toggle") /\ OverridesToggle(Event.k)) =>
             (redraws # <<>> <=> store["autoRender"]))
    /\ [][Running("toggle", "redraw") =>
             IF store["autoRender"]
             THEN Len(redraws') = Len(redraws) + 1
             ELSE redraws' = redraws]_vars

\* C14 witness: autoRender was false when the dialog was created, the
\* render check box was ticked since, and a resolution toggle returns with
\* exactly one full re-render request.
RedrawReadsCurrentAutoRenderWitness ==
    /\ Returning("toggle")
    /\ Event.k = "resolution"
    /\ ~captured[Event.d]
    /\ store["autoRender"]
    /\ widget[<<Event.d, "render">>]
    /\ redraws = <<"full">>

\* A signal is about to call the change handler of a binding.
DeliveryDue == Running("set", "emit") /\ Top.rcv # <<>> /\ ~Head(Top.rcv).obs

\* C15: calling a binding's change handler twice with the same value gives
\* the check boxes that calling it once gives, and a call with the value the
\* check box already displays changes neither check boxes, store, signals
\* nor redraw requests.
ExternalChangeIdempotent ==
    /\ [](DeliveryDue =>
            LET h == Head(Top.rcv)
                once == _setValue(widget, h.dlg, h.name, Top.v)
            IN  _setValue(once, h.dlg, h.name, Top.v) = once)
    /\ [][(DeliveryDue /\ widget[<<Head(Top.rcv).dlg, Head(Top.rcv).name>>] = Top.v)
            => UNCHANGED <<widget, store, subs, redraws>>]_vars

\* C15 witness: a value is about to be delivered to a binding whose check
\* box already displays it after an earlier delivery of the same value.
ExternalChangeIdempotentWitness ==
    /\ DeliveryDue
    /\ InEvent("external")
    /\ Top.v
    /\ widget[<<Head(Top.rcv).dlg, Head(Top.rcv).name>>]
    /\ dialog[Head(Top.rcv).dlg] = "open"

\* The toggle handler is being left by an exception.
ToggleRaised == Len(stack) = 1 /\ InEvent("toggle") /\ Event.pc = "raised"

\* C16: when the store write of a toggle raises, the handler is left with
\* the binding not connected and without a redraw request, the binding is
\* still not connected after the handler has exited, and a later write from
\* outside changes neither its check box nor its being not connected.
RaiseSkipsResubscribe ==
    /\ [](ToggleRaised => Updating(Event.d, Event.k) /\ redraws = <<>>)
    /\ [][\A d \in Dialogs, k \in Kinds :
            (ToggleRaised /\ Binding = Handler(d, k)) =>
                (Idle' /\ Updating(d, k)')]_vars
    /\ [][\A d \in Dialogs, k \in Kinds :
            (InEvent("external") /\ Constructed(d, k) /\ Updating(d, k)) =>
                /\ widget'[<<d, k>>] = widget[<<d, k>>]
                /\ Updating(d, k)']_vars

\* C16 witness: after a toggle whose write raised, a write from outside has
\* returned and the check box of the binding does not display its value.
RaiseSkipsResubscribeWitness ==
    /\ Returning("external")
    /\ raises > 0
    /\ \E d \in Dialogs, k \in Kinds :
          /\ dialog[d] = "open"
          /\ mapWindowProperty(k) = Event.p
          /\ Updating(d, k)
          /\ widget[<<d, k>>] # Event.v
          /\ store[Event.p] = Event.v

\* C17: when a signal delivers a value to a binding, the check box of that
\* binding displays the value afterwards, and the store, every subscriber
\* list, every other check box and the redraw requests are as before.
ExternalChangeFrame ==
    [][\A d \in Dialogs, k \in Kinds :
          ( /\ Running("set", "emit")
            /\ Top.rcv # <<>>
            /\ Head(Top.rcv) = Handler(d, k)
            /\ Len(deliv') = Len(deliv) + 1 ) =>
              /\ widget'[<<d, k>>] = Top.v
              /\ \A b \in DOMAIN widget : b # <<d, k>> => widget'[b] = widget[b]
              /\ store' = store
              /\ subs' = subs
              /\ redraws' = redraws]_vars

\* C17 witness: with autoRender true, a write from outside has just been
\* delivered to a resolution or region binding of an open dialog, and a
\* check box of another kind in that dialog displays the opposite value.
ExternalChangeFrameWitness ==
    /\ InEvent("external")
    /\ store["autoRender"]
    /\ redraws = <<>>
    /\ deliv # <<>>
    /\ LET last == deliv[Len(deliv)]
       IN  /\ ~last.h.obs
           /\ last.h.name \in {"resolution", "region"}
           /\ dialog[last.h.dlg] = "open"
           /\ widget[<<last.h.dlg, last.h.name>>] = last.v
           /\ \E k \in Kinds : widget[<<last.h.dlg, k>>] # last.v

\* The property the spec names for each binding.
OwnProperty(k) ==
    CASE k = "render" -> "autoRender"
      [] k = "alignExtent" -> "alignExtent"
      [] k = "resolution" -> "resolution"
      [] k = "region" -> "showRegion"

\* What a step of a toggle of binding kind k leaves alone.
ToggleFrameStep(k) ==
    /\ \A q \in Props : q # OwnProperty(k) =>
          /\ store'[q] = store[q]
          /\ subs'[q] = subs[q]
    /\ \A b \in DOMAIN widget : b[2] # k => widget'[b] = widget[b]

\* C18: every step of a user toggle of a binding, the click included, leaves
\* the other three properties, the subscriber lists of their signals and the
\* check boxes of the other kinds unchanged, and every store write of the
\* toggle is to the binding's own property; a binding is seeded from its own
\* property and is subscribed to the signal of its own property only.
ToggleFrameOwnProperty ==
    /\ [][\A k \in Kinds :
            (InEvent("toggle") /\ Event.k = k) => ToggleFrameStep(k)]_vars
    /\ [][\A k \in Kinds :
            (Idle /\ InEvent("toggle")' /\ Event'.k = k) => ToggleFrameStep(k)]_vars
    /\ [](InEvent("toggle") =>
            \A i \in 1..Len(writes) : writes[i].p = OwnProperty(Event.k))
    /\ [][\A d \in Dialogs, k \in Kinds :
            (Running("init", "construct") /\ Top.d = d /\ Top.k = k) =>
                widget'[<<d, k>>] = store[OwnProperty(k)]]_vars
    /\ [](\A d \in Dialogs, k \in Kinds, q \in Props :
            Handler(d, k) \in Handlers(q) => q = OwnProperty(k))

\* C18 witness: a toggle of a region binding returns after its write, the
\* store holds the written value for showRegion and the opposite value for
\* another property.
ToggleFrameOwnPropertyWitness ==
    /\ Returning("toggle")
    /\ Event.k = "region"
    /\ writes # <<>>
    /\ store["showRegion"] = Event.v
    /\ \E q \in Props : store[q] # Event.v

TypeOK ==
    /\ store \in [Props -> BOOLEAN]
    /\ widget \in [Dialogs \X Kinds -> BOOLEAN]
    /\ dialog \in [Dialogs -> {"none", "creating", "open", "closed", "failed"}]
    /\ reentrant \in 0..MaxReentrant
    /\ raises \in 0..MaxRaises
    /\ Len(stack) <= 3 + MaxReentrant
====
